---- MODULE Spec2Model ----
(***************************************************************************)
(* The tool-augmented reasoning loop of AIAgentBubble (src/unnamed/        *)
(* part_001): performAction / actionWithStreaming, the two-node graph      *)
(* built by createAgentGraph (agentNode, executeToolsWithHooks and the two *)
(* conditional edges), and the result construction of executeAgent and     *)
(* executeAgentWithStreaming.                                              *)
(*                                                                         *)
(* Strings of the program are modelled as sequences of tokens, so that     *)
(* "Execution error: " + msg is <<"Execution error: ", msg>> and the empty *)
(* string is <<>>.                                                         *)
(***************************************************************************)
EXTENDS Integers, Sequences, FiniteSets, TLC

\* ---------------------------------------------------------------- bounds
MaxIterBound == 3      \* maxIterations is drawn from MinIterations..MaxIterBound
MaxCalls == 2          \* tool-call requests in one model response
MaxTotalCalls == 2     \* tool-call requests in one run
MaxRetriesBound == 2   \* maxRetries is 0 or MaxRetriesBound
MaxImages == 2         \* image attachments of one run
MaxPeerTurns == 1      \* TOOL_TURNs of the second invocation
MaxBackoffRetries == 8 \* maxRetries of the runs that are retried often
RandomSteps == 8       \* Math.random() is one of 0/n, 1/n, ..., (n-1)/n

\* -------------------------------------------------- program constants
MinIterations == 2     \* maxIterations: z.number().positive().min(2)

KnownTool == "calc"    \* a tool bubble the factory knows
GhostTool == "ghost"   \* a name the factory does not know

\* error texts
ErrUnsupported == "Unsupported model provider"
ErrNoCreds == "No credentials provided"
ErrNoKey == "API key not found"
ErrImage == "Failed to load image from URL"
ErrProvider == "provider failure"
ErrRecursion == "Recursion limit reached without hitting a stop condition"
ErrTruncated == "Response was truncated due to max tokens limit. Please increase maxTokens"
ErrJson == "jsonMode: response is not valid JSON"

\* ------------------------------------------------------------- messages
HumanMessage ==
  [id |-> 0, role |-> "human", calls |-> <<>>, tcid |-> 0,
   content |-> "question", trunc |-> FALSE]

AIMessage(calls, content, trunc) ==
  [id |-> 0, role |-> "ai", calls |-> calls, tcid |-> 0,
   content |-> content, trunc |-> trunc]

ToolMessage(tcid, content) ==
  [id |-> 0, role |-> "tool", calls |-> <<>>, tcid |-> tcid,
   content |-> content, trunc |-> FALSE]

ToolCall(id, name) == [id |-> id, name |-> name, args |-> "a0"]

Last(s) == s[Len(s)]

MaxOf(S) == IF S = {} THEN 0 ELSE CHOOSE x \in S : \A y \in S : y <= x

MaxId(s) == MaxOf({s[i].id : i \in 1..Len(s)})

\* the reducer gives every message that has no id a fresh one
RECURSIVE AssignIds(_, _)
AssignIds(s, n) ==
  IF s = <<>> THEN <<>>
  ELSE IF Head(s).id = 0
       THEN <<[Head(s) EXCEPT !.id = n + 1]>> \o AssignIds(Tail(s), n + 1)
       ELSE <<Head(s)>> \o AssignIds(Tail(s), n)

\* a message of the update replaces the state's message of the same id,
\* any other message of the update is appended
RECURSIVE MergeById(_, _)
MergeById(left, right) ==
  IF right = <<>> THEN left
  ELSE LET m == Head(right)
           hit == {i \in 1..Len(left) : left[i].id = m.id}
       IN IF hit = {}
          THEN MergeById(Append(left, m), Tail(right))
          ELSE MergeById([left EXCEPT ![MaxOf(hit)] = m], Tail(right))

messagesStateReducer(left, right) ==
  LET n == MaxOf({MaxId(left), MaxId(right)})
      l == AssignIds(left, n)
      r == AssignIds(right, MaxOf({MaxId(l), MaxId(right)}))
  IN MergeById(l, r)

\* --------------------------------------------------------------- results
Result(response, toolCalls, iterations, error, success) ==
  [response |-> response, toolCalls |-> toolCalls, iterations |-> iterations,
   error |-> error, success |-> success]

NoResult == [none |-> TRUE]

\* the parse attempt of jsonMode: the only text of the model's vocabulary
\* that is one JSON document (possibly inside a code fence) is <<"json">>
IsJson(text) == text = <<"json">>

formatFinalResponse(text, jsonMode) ==
  IF jsonMode /\ ~IsJson(text)
  THEN [response |-> text, error |-> <<ErrJson>>]
  ELSE [response |-> text, error |-> <<>>]

\* executeAgent's walk over result.messages: an assistant message registers
\* its requests in toolCallMap, a tool message whose id is registered yields
\* one toolCalls entry
RECURSIVE ExtractToolCalls(_, _, _)
ExtractToolCalls(msgs, map, acc) ==
  IF msgs = <<>> THEN acc
  ELSE LET m == Head(msgs) IN
       IF m.role = "ai"
       THEN ExtractToolCalls(Tail(msgs),
              map \cup {m.calls[i] : i \in 1..Len(m.calls)}, acc)
       ELSE IF m.role = "tool" /\ \E c \in map : c.id = m.tcid
       THEN LET c == CHOOSE c \in map : c.id = m.tcid
            IN ExtractToolCalls(Tail(msgs), map,
                 Append(acc, [tool |-> c.name, input |-> c.args,
                              output |-> m.content]))
       ELSE ExtractToolCalls(Tail(msgs), map, acc)

IsAI(m) == m.role = "ai"

\* the tail of executeAgent once graph.invoke has returned msgs
InvokeResult(msgs, jsonMode) ==
  LET iterations == Len(msgs)
      toolCalls == ExtractToolCalls(msgs, {}, <<>>)
      aiMessages == SelectSeq(msgs, IsAI)
      finalMessage == Last(aiMessages)
      response == IF aiMessages = <<>> THEN <<>> ELSE <<finalMessage.content>>
      formattedResult == formatFinalResponse(response, jsonMode)
  IN IF aiMessages # <<>> /\ finalMessage.trunc
     THEN Result(<<"Execution error: ", ErrTruncated>>, toolCalls, iterations,
                 <<ErrTruncated>>, FALSE)
     ELSE IF formattedResult.error # <<>>
     THEN Result(formattedResult.response, toolCalls, iterations,
                 formattedResult.error, FALSE)
     ELSE Result(formattedResult.response, toolCalls, iterations, <<>>, TRUE)

\* (mutant) the catch reports the failure with an empty error string
InvokeCatchEmptyError(err) ==
  Result(<<"Execution error: ", err>>, <<>>, 0, <<>>, FALSE)

\* the catch of executeAgent when graph.invoke (or the image fetch) throws:
\* toolCalls and iterations still hold their initial values
InvokeCatch(err) ==
  Result(<<"Execution error: ", err>>, <<>>, 0, <<err>>, FALSE)

\* the tail of executeAgentWithStreaming once the event stream has ended
StreamResult(s, jsonMode) ==
  LET formattedResult == formatFinalResponse(s.accumulatedContent, jsonMode)
  IN IF formattedResult.error # <<>>
     THEN Result(formattedResult.response, s.toolCalls, s.iterations,
                 formattedResult.error, FALSE)
     ELSE Result(formattedResult.response, s.toolCalls, s.iterations,
                 <<>>, TRUE)

\* the catch of executeAgentWithStreaming
StreamCatch(s, err) ==
  Result(<<"Execution error: ", err>>, s.toolCalls, s.iterations,
         <<err>>, FALSE)

\* the catch of performAction and of actionWithStreaming
OuterCatch(err) == Result(<<"Error: ", err>>, <<>>, 0, <<err>>, FALSE)

Caught(r) == [result |-> r, escaped |-> FALSE]
Thrown == [result |-> NoResult, escaped |-> TRUE]

\* (mutant) the entry point lets the error through
performActionRethrows(err) == Thrown

\* performAction and actionWithStreaming wrap the whole run in try/catch
performActionCatch(err) == Caught(OuterCatch(err))

\* ---------------------------------------------------------- credentials
\* CredentialType members used here
OPENAI_CRED == "OPENAI_CRED"
FIRECRAWL_API_KEY == "FIRECRAWL_API_KEY"

CredentialTypes == {OPENAI_CRED, FIRECRAWL_API_KEY}

\* a secret is a string; the empty string is falsy
Secrets == {"", "x", "y"}

\* Record<CredentialType, string>: a function on some credential types
CredentialMaps == UNION {[S -> Secrets] : S \in SUBSET CredentialTypes}

EmptyMap == [t \in {} |-> ""]

NoCredentials == [present |-> FALSE, map |-> EmptyMap]
Credentials(map) == [present |-> TRUE, map |-> map]

\* ----------------------------------------------------------------- state
VARIABLES
  params,                \* the run's input (this.params, hooks, entry point)
  pc,                    \* where the run is
  messages,              \* the graph state (MessagesAnnotation)
  nodeLog,               \* the graph nodes executed so far, in order
  attempt,               \* failed attempts of the current generation call
  issued,                \* tool-call requests emitted so far in the run
  shouldStopAfterTools,  \* this.shouldStopAfterTools
  turn,                  \* locals of executeToolsWithHooks
  stream,                \* locals of executeAgentWithStreaming
  calllog,               \* what the tool stage called and what it did, in order
  result,                \* what the entry point returned
  escaped,               \* an exception left the entry point
  events,                \* the events handed to the streaming callback, in order
  pending,               \* deliveries begun whose promise has not settled
  fetches,               \* the images fetched over the network, by position
  toolCredentials,       \* the credentials handed to each resolved tool
  peer,                  \* a second invocation on the same instance
  hookLog,               \* the hook calls: what each was given and returned
  backoff,               \* the sleep before the retry of the generation call
  clients,               \* OAuthService.clients: the providers configured
  stateStore,            \* OAuthService.stateStore
  uuids,                 \* the values crypto.randomUUID() has returned
  authorizing,           \* initiateOAuth calls waiting for the authorize URI
  now,                   \* Date.now(), in minutes
  userCredentials,       \* the userCredentials table
  exchanging,            \* handleOAuthCallback calls waiting for the token
  minted,                \* the tokens the providers have handed out
  oauthLog,              \* what the OAuth service handed out and accepted
  oauthResult            \* what its last call returned or threw

vars == <<params, pc, messages, nodeLog, attempt, issued,
          shouldStopAfterTools, turn, stream, calllog, result, escaped,
          events, pending, fetches, toolCredentials, peer,
          hookLog, backoff,
          clients, stateStore, uuids, authorizing, now, userCredentials,
          exchanging, minted, oauthLog, oauthResult>>

\* the state of the agent and the state of the OAuth service
agentVars == <<params, pc, messages, nodeLog, attempt, issued,
               shouldStopAfterTools, turn, stream, calllog, result, escaped,
               events, pending, fetches, toolCredentials, peer,
               hookLog, backoff>>

oauthVars == <<clients, stateStore, uuids, authorizing, now, userCredentials,
               exchanging, minted, oauthLog, oauthResult>>

\* the factory's bubbles: a tool bubble, a bubble that is not a tool, and a
\* tool bubble whose toolAgent throws; GhostTool is not registered
ServiceBubble == "service"
BrokenTool == "broken"

\* the tool lists drawn: any mix of the known and the unregistered tool, or
\* one reference of the other two kinds
ToolLists ==
  (SUBSET {KnownTool, GhostTool}) \cup {{ServiceBubble}, {BrokenTool}}

\* an image attachment is embedded data, a URL that can be fetched, or a
\* URL whose fetch fails (network error or non-OK status)
ImageKinds == {"base64", "url", "dead"}

ImageLists == UNION {[1..n -> ImageKinds] : n \in 0..MaxImages}

Keyed == Credentials([t \in {OPENAI_CRED} |-> "x"])

\* ParamsOf(E, C, S, I, T): the inputs with the entry points E, the
\* (provider, credentials) pairs C, the constructor's streamingCallback in
\* S, the image lists I and the per-tool credentials T; the hooks, where
\* there are any, hand back what they were given (hooksRewrite is false),
\* and Math.random() returns 0.5 or the value next to it (randoms)
ParamsOf(E, C, S, I, T) ==
  {p \in [entry : E,
          provider : {"openai", "acme"},
          credentials : {c[2] : c \in C},
          streamingCallback : S,
          images : I,
          toolConfigCredentials : T,
          maxIterations : MinIterations..MaxIterBound,
          maxRetries : {0, MaxRetriesBound},
          jsonMode : BOOLEAN,
          tools : ToolLists,
          beforeToolCall : BOOLEAN,
          afterToolCall : BOOLEAN,
          hooksRewrite : {FALSE},
          randoms : {{RandomSteps \div 2}}] :
     <<p.provider, p.credentials>> \in C}

\* the runs of Spec: either entry point, a keyed or an unsupported
\* provider or no credentials at all, no constructor callback, no image or
\* one that cannot be fetched, no per-tool credentials
Params ==
  ParamsOf({"performAction", "actionWithStreaming"},
           {<<"openai", Keyed>>, <<"acme", Keyed>>,
            <<"openai", NoCredentials>>},
           {FALSE}, {<<>>, <<"dead">>}, {EmptyMap})

NoTurn == [calls |-> <<>>, idx |-> 0, toolMessages |-> <<>>,
           currentMessages |-> <<>>]

NoStream == [currentIteration |-> 0, iterations |-> 0, toolCalls |-> <<>>,
             toolCallMap |-> <<>>, accumulatedContent |-> <<>>]

NoPeer == [pc |-> "idle", requested |-> FALSE, turns |-> 0]

NoBackoff == [attemptNumber |-> 0, delay |-> 0, finalDelay |-> 0]

\* the OAuth providers of the API: 'google' | 'followupboss'
OAuthProviders == {"google", "followupboss"}

\* the OAuth service after its constructor, with the providers of C
\* configured in the environment
OAuthInit(C) ==
  /\ clients \in C
  /\ stateStore = EmptyMap
  /\ uuids = 0
  /\ authorizing = {}
  /\ now = 0
  /\ userCredentials = <<>>
  /\ exchanging = <<>>
  /\ minted = 0
  /\ oauthLog = EmptyMap
  /\ oauthResult =
       [op |-> "none", state |-> 0, threw |-> FALSE, message |-> ""]

AgentInit(P) ==
  /\ params \in P
  /\ pc = "start"
  /\ messages = <<>>
  /\ nodeLog = <<>>
  /\ attempt = 0
  /\ issued = 0
  /\ shouldStopAfterTools = FALSE
  /\ turn = NoTurn
  /\ stream = NoStream
  /\ calllog = <<>>
  /\ result = NoResult
  /\ escaped = FALSE
  /\ events = <<>>
  /\ pending = <<>>
  /\ fetches = <<>>
  /\ toolCredentials = <<>>
  /\ peer = NoPeer
  /\ hookLog = <<>>
  /\ backoff = NoBackoff

InitOf(P) == AgentInit(P) /\ OAuthInit({OAuthProviders})

Init == InitOf(Params)

Streaming == params.entry = "actionWithStreaming"

\* the constructor's streamingCallback (this.streamingCallback)
ThisCallback == params.streamingCallback

\* what this.factory.get finds
Registry == {KnownTool, ServiceBubble, BrokenTool}

\* ToolBubbleClass.type of a registered bubble
BubbleType(name) == IF name = ServiceBubble THEN "service" ELSE "tool"

\* ToolBubbleClass.toolAgent(...) returns the tool or throws
ToolAgentThrows(name) == name = BrokenTool

\* (mutant) every reference becomes a tool, unknown or not
initializeToolsKeepsAll(toolConfigs) == toolConfigs

\* initializeTools: a reference the factory does not know, a bubble that is
\* not a tool and a tool whose toolAgent throws are skipped (continue), the
\* others become the agent's tools
initializeTools(toolConfigs) ==
  {name \in toolConfigs :
     /\ name \in Registry
     /\ BubbleType(name) = "tool"
     /\ ~ToolAgentThrows(name)}

BUBBLE_CREDENTIAL_OPTIONS(name) ==
  IF name \in {KnownTool, BrokenTool} THEN {FIRECRAWL_API_KEY} ELSE {}

\* (mutant) every credential of the agent is passed on
inheritedToolCredentialsAll(credentials, name) ==
  LET S == {t \in CredentialTypes :
              /\ credentials.present
              /\ t \in DOMAIN credentials.map
              /\ credentials.map[t] # ""}
  IN [t \in S |-> credentials.map[t]]

\* the agent's credentials a tool asks for (empty secrets are not passed)
inheritedToolCredentials(credentials, name) ==
  LET S == {t \in BUBBLE_CREDENTIAL_OPTIONS(name) :
              /\ credentials.present
              /\ t \in DOMAIN credentials.map
              /\ credentials.map[t] # ""}
  IN [t \in S |-> credentials.map[t]]

\* (mutant) the spread is the other way round: inherited values win
finalToolCredentialsInheritedWin(inherited, explicit) ==
  [t \in DOMAIN inherited \cup DOMAIN explicit |->
     IF t \in DOMAIN inherited THEN inherited[t] ELSE explicit[t]]

\* { ...toolCredentials, ...(toolConfig.credentials || {}) }
finalToolCredentials(inherited, explicit) ==
  [t \in DOMAIN inherited \cup DOMAIN explicit |->
     IF t \in DOMAIN explicit THEN explicit[t] ELSE inherited[t]]

\* the tools handed to createAgentGraph
agentTools == initializeTools(params.tools)

\* ------------------------------------------------------------ the graph
\* withRetry({stopAfterAttempt: maxRetries}): the retry wrapper makes
\* max(stopAfterAttempt - 1, 0) retries after the first attempt
MaxAttempts == IF params.maxRetries > 1 THEN params.maxRetries ELSE 1

shouldContinue(msgs) ==
  IF Len(Last(msgs).calls) > 0 THEN "tools" ELSE "__end__"

shouldContinueAfterTools(stop) == IF stop THEN "__end__" ELSE "agent"

\* (mutant) the conditional edge is added whether or not there are tools
AfterAgentAlwaysConditional(msgs) == shouldContinue(msgs)

\* createAgentGraph: the conditional edges exist only with tools
AfterAgent(msgs) ==
  IF Cardinality(agentTools) > 0 THEN shouldContinue(msgs) ELSE "__end__"

\* (mutant) the limit handed to the graph is one step too large
RecursionLimitOffByOne == params.maxIterations + 1

\* graph.invoke / graph.streamEvents with recursionLimit: maxIterations
RecursionLimit == params.maxIterations

GraphReturned(msgs, s) ==
  IF Streaming THEN StreamResult(s, params.jsonMode)
  ELSE InvokeResult(msgs, params.jsonMode)

GraphThrew(err, s) ==
  IF Streaming THEN StreamCatch(s, err) ELSE InvokeCatch(err)

\* A node has run as superstep Len(nodeLog) + 1 and the edge out of it
\* leads to next.  The graph runs at most RecursionLimit supersteps; a run
\* that still has a node to execute after them ends with
\* GraphRecursionError.  Whether a run that finishes in exactly
\* RecursionLimit supersteps returns or throws depends on how the graph
\* library counts its entry step, so both are possible.
AfterNode(node, msgs, next, s) ==
  LET k == Len(nodeLog) + 1 IN
  /\ nodeLog' = Append(nodeLog, node)
  /\ messages' = msgs
  /\ stream' = s
  /\ escaped' = FALSE
  /\ IF next # "__end__"
     THEN IF k < RecursionLimit
          THEN pc' = next /\ result' = NoResult
          ELSE pc' = "done" /\ result' = GraphThrew(ErrRecursion, s)
     ELSE /\ pc' = "done"
          /\ \/ result' = GraphReturned(msgs, s)
             \/ k >= RecursionLimit /\ result' = GraphThrew(ErrRecursion, s)

\* agentNode: the system prompt is put in front of the graph's messages at
\* every generation call, as a human message
systemMessage == [HumanMessage EXCEPT !.content = "systemPrompt"]

\* what the generation call of the agent node is given
allMessages == <<systemMessage>> \o messages

\* ---------------------------------------------------------------- events
Event(type) == [type |-> type, recoverable |-> FALSE]

ErrorEvent(recoverable) == [type |-> "error", recoverable |-> recoverable]

When(cond, evs) == IF cond THEN evs ELSE <<>>

\* await streamingCallback(...): the events evs are handed over one after
\* the other, each delivery settled before the next begins; the events of
\* floating are handed over by statements that do not await the promise
Deliver(evs, floating) ==
  /\ events' = events \o evs
  /\ pending' = pending \o floating

\* the tail of actionWithStreaming: the result of executeAgentWithStreaming
\* is announced with a complete event
Complete == When(Streaming, <<Event("complete")>>)

\* ---------------------------------------------------------------- actions
\* chooseCredential: the provider's credential of the map, "" when the map
\* has none
chooseCredential(p) ==
  IF ~p.credentials.present THEN [err |-> <<ErrNoCreds>>, apiKey |-> ""]
  ELSE IF p.provider # "openai" THEN [err |-> <<ErrUnsupported>>, apiKey |-> ""]
  ELSE IF OPENAI_CRED \in DOMAIN p.credentials.map
       THEN [err |-> <<>>, apiKey |-> p.credentials.map[OPENAI_CRED]]
       ELSE [err |-> <<>>, apiKey |-> ""]

\* initializeModel: the error thrown, or none.  constructed says whether
\* the provider client accepts being built without an API key (it may take
\* one from its environment) or throws.
initializeModel(p, constructed) ==
  LET chosen == chooseCredential(p) IN
  IF chosen.err # <<>> THEN chosen.err
  ELSE IF chosen.apiKey = "" /\ ~constructed THEN <<ErrNoKey>>
  ELSE <<>>

\* performAction / actionWithStreaming up to the call of executeAgent:
\* initializeModel (chooseCredential), initializeTools, createAgentGraph.
Start ==
  /\ pc = "start"
  /\ \E constructed \in BOOLEAN :
       LET err == initializeModel(params, constructed)
           out == performActionCatch(err[1])
           begun == When(Streaming, <<Event("start"), Event("llm_start")>>)
       IN IF err # <<>>
          THEN /\ pc' = "done"
               /\ result' = out.result
               /\ escaped' = out.escaped
               /\ Deliver(begun \o When(Streaming /\ ~out.escaped,
                                        <<ErrorEvent(TRUE)>>), <<>>)
               /\ UNCHANGED toolCredentials
          ELSE /\ pc' = "human"
               /\ Deliver(begun, <<>>)
               /\ toolCredentials' =
                    [name \in agentTools |->
                       finalToolCredentials(
                         inheritedToolCredentials(params.credentials, name),
                         params.toolConfigCredentials)]
               /\ UNCHANGED <<result, escaped>>
  /\ UNCHANGED <<oauthVars, params, messages, nodeLog, attempt, issued,
                 shouldStopAfterTools, turn, stream, calllog, fetches, peer,
                 hookLog, backoff>>

\* (mutant) a failed fetch is skipped and the loop goes on
RECURSIVE FetchImagesSkipsFailures(_, _, _)
FetchImagesSkipsFailures(images, i, fetched) ==
  IF i > Len(images) THEN [fetched |-> fetched, failed |-> FALSE]
  ELSE IF images[i] = "base64"
       THEN FetchImagesSkipsFailures(images, i + 1, fetched)
       ELSE FetchImagesSkipsFailures(images, i + 1, Append(fetched, i))

\* the loop over the images: an embedded image is used as it is, a URL is
\* fetched, and the first fetch that fails throws out of the loop
RECURSIVE FetchImages(_, _, _)
FetchImages(images, i, fetched) ==
  IF i > Len(images) THEN [fetched |-> fetched, failed |-> FALSE]
  ELSE IF images[i] = "base64" THEN FetchImages(images, i + 1, fetched)
  ELSE IF images[i] = "dead"
       THEN [fetched |-> Append(fetched, i), failed |-> TRUE]
       ELSE FetchImages(images, i + 1, Append(fetched, i))

HumanMessageOf(images) ==
  IF Len(images) > 0 THEN [HumanMessage EXCEPT !.content = "question+images"]
  ELSE HumanMessage

\* executeAgent / executeAgentWithStreaming: build the human message (the
\* remote images are fetched) and hand it to the graph
BuildHumanMessage ==
  /\ pc = "human"
  /\ LET loaded == FetchImages(params.images, 1, <<>>) IN
       /\ fetches' = loaded.fetched
       /\ IF loaded.failed
          THEN /\ pc' = "done"
               /\ result' = GraphThrew(ErrImage, stream)
               /\ Deliver(Complete, <<>>)
               /\ UNCHANGED messages
          ELSE /\ pc' = "agent"
               /\ messages' =
                    messagesStateReducer(<<>>, <<HumanMessageOf(params.images)>>)
               /\ UNCHANGED <<result, events, pending>>
  /\ UNCHANGED <<oauthVars, params, nodeLog, attempt, issued, shouldStopAfterTools,
                 turn, stream, calllog, escaped, toolCredentials, peer,
                 hookLog, backoff>>

baseDelay == 1000      \* milliseconds
maxDelay == 32000      \* milliseconds

\* the model computes the sleep in microseconds, so that the jitter of the
\* random values drawn is a whole number
Micro == 1000

\* (mutant) the jitter is delay * 1.5 * (Math.random() - 0.5)
exponentialBackoffWideJitter(attemptNumber, random) ==
  LET delay == IF baseDelay * 2 ^ (attemptNumber - 1) < maxDelay
               THEN baseDelay * 2 ^ (attemptNumber - 1) ELSE maxDelay
      jitter == (3 * delay * Micro * (2 * random - RandomSteps))
                  \div (4 * RandomSteps)
  IN [attemptNumber |-> attemptNumber, delay |-> delay,
      finalDelay |-> delay * Micro + jitter]

\* exponentialBackoff: delay = min(baseDelay * 2^(attemptNumber - 1),
\* maxDelay), jitter = delay * 0.25 * (Math.random() - 0.5), and the sleep
\* is delay + jitter.  Math.random() is random / RandomSteps.
exponentialBackoff(attemptNumber, random) ==
  LET delay == IF baseDelay * 2 ^ (attemptNumber - 1) < maxDelay
               THEN baseDelay * 2 ^ (attemptNumber - 1) ELSE maxDelay
      jitter == (delay * Micro * (2 * random - RandomSteps))
                  \div (8 * RandomSteps)
  IN [attemptNumber |-> attemptNumber, delay |-> delay,
      finalDelay |-> delay * Micro + jitter]

\* agentNode: one attempt of the generation call fails.  onFailedAttempt
\* reports every failed attempt to the constructor's callback, the last one
\* with recoverable = false, and sleeps before a retry.
AgentAttemptFails ==
  /\ pc = "agent"
  /\ LET s == IF Streaming
              THEN [stream EXCEPT !.currentIteration = @ + 1]
              ELSE stream
         final == attempt + 1 >= MaxAttempts
         evs == When(Streaming, <<Event("iteration_start")>>)
                \o When(ThisCallback,
                        <<Event("llm_start"), ErrorEvent(~final)>>)
     IN /\ stream' = s
        /\ attempt' = attempt + 1
        /\ IF final
           THEN /\ pc' = "done"
                /\ result' = GraphThrew(ErrProvider, s)
                /\ Deliver(evs \o Complete, <<>>)
                /\ backoff' = NoBackoff
           ELSE /\ Deliver(evs, <<>>)
                /\ \E random \in params.randoms :
                     backoff' = exponentialBackoff(attempt + 1, random)
                /\ UNCHANGED <<pc, result>>
  /\ UNCHANGED <<oauthVars, params, messages, nodeLog, issued, shouldStopAfterTools,
                 turn, calllog, escaped, fetches, toolCredentials, peer,
                 hookLog>>

Contents == {"json", "text"}

\* the requests of one response: the n-th request of the run has id n
Requests(names) == [i \in 1..Len(names) |-> ToolCall(issued + i, names[i])]

\* agentNode: the generation call returns a response.  The responses drawn
\* are answers (no request; any text, possibly cut off at the token cap)
\* and requests for tools (with some plain text, not cut off).
AgentResponds ==
  /\ pc = "agent"
  /\ \E n \in 0..MaxCalls, content \in Contents, trunc \in BOOLEAN :
     \E names \in [1..n -> {KnownTool, GhostTool}] :
       /\ issued + n <= MaxTotalCalls
       /\ n > 0 => (content = "text" /\ ~trunc)
       /\ LET response == AIMessage(Requests(names), content, trunc)
              msgs == messagesStateReducer(messages, <<response>>)
              s == IF Streaming
                   THEN [stream EXCEPT
                           !.currentIteration = @ + 1,
                           !.accumulatedContent = Append(@, content),
                           !.iterations = stream.currentIteration + 1]
                   ELSE stream
              evs == When(Streaming, <<Event("iteration_start")>>)
                     \o When(ThisCallback, <<Event("llm_start")>>)
                     \o When(Streaming, <<Event("token")>>)
                     \o When(ThisCallback, <<Event("llm_complete")>>)
                     \o When(Streaming, <<Event("llm_complete"),
                                          Event("iteration_complete")>>)
          IN /\ AfterNode("agent", msgs, AfterAgent(msgs), s)
             /\ Deliver(evs \o When(pc' = "done", Complete), <<>>)
       /\ issued' = issued + n
  /\ attempt' = 0
  /\ backoff' = NoBackoff
  /\ UNCHANGED <<oauthVars, params, shouldStopAfterTools, turn, calllog, fetches,
                 toolCredentials, peer,
                 hookLog>>

\* ------------------------------------------------------- the tool stage
RemoveAt(s, i) == [j \in 1..(Len(s) - 1) |-> IF j < i THEN s[j] ELSE s[j + 1]]

\* on_tool_start of executeAgentWithStreaming
OnToolStart(s, c) ==
  [s EXCEPT !.toolCallMap = Append(@, [name |-> c.name, args |-> c.args])]

\* on_tool_end of executeAgentWithStreaming: the first pending entry of the
\* same tool name is taken as the matching call
OnToolEnd(s, c, output) ==
  LET hit == {i \in 1..Len(s.toolCallMap) : s.toolCallMap[i].name = c.name}
      i == CHOOSE x \in hit : \A y \in hit : x <= y
  IN IF hit = {} THEN s
     ELSE [s EXCEPT
             !.toolCalls = Append(@, [tool |-> s.toolCallMap[i].name,
                                      input |-> s.toolCallMap[i].args,
                                      output |-> output]),
             !.toolCallMap = RemoveAt(@, i)]

\* what a before-hook does: hand back what it was given, throw, or (in the
\* runs whose hooks rewrite) return another message sequence or other
\* arguments
BeforeOutcomes ==
  IF ~params.beforeToolCall THEN {"none"}
  ELSE IF params.hooksRewrite
       THEN {"same", "throw", "edit", "drop", "system", "args"}
       ELSE {"same", "throw"}

ToolOutcomes == {"ok", "throw"}

AfterOutcomes ==
  IF ~params.afterToolCall THEN {"none"}
  ELSE IF params.hooksRewrite
       THEN {"same", "stop", "throw", "edit", "drop"}
       ELSE {"same", "stop", "throw"}

NoHookResult == [defined |-> FALSE]

\* a system message written by a hook
HookSystemMessage ==
  [id |-> 0, role |-> "system", calls |-> <<>>, tcid |-> 0,
   content |-> "rewritten prompt", trunc |-> FALSE]

\* the message sequences a hook returns for the sequence cur it was given:
\* cur itself, cur with its first message replaced by a new one (same
\* length), cur without its first message (shorter), cur behind a system
\* message (longer)
RewriteMessages(kind, cur) ==
  IF kind = "system" THEN <<HookSystemMessage>> \o cur
  ELSE IF cur = <<>> THEN cur
  ELSE IF kind = "edit"
       THEN <<[HumanMessage EXCEPT !.content = "rewritten"]>> \o Tail(cur)
  ELSE IF kind = "drop" THEN Tail(cur)
  ELSE cur

\* what the before-hook returns: nothing when there is no hook, else a
\* message sequence and the arguments for the tool
BeforeHookResult(b, cur, args) ==
  IF b = "none" THEN NoHookResult
  ELSE [defined |-> TRUE, messages |-> RewriteMessages(b, cur),
        toolInput |-> IF b = "args" THEN "a1" ELSE args]

\* what the after-hook returns: nothing when there is no hook, else a
\* message sequence and whether it wants the run to stop
AfterHookResult(a, cur) ==
  IF a = "none" THEN NoHookResult
  ELSE [defined |-> TRUE, messages |-> RewriteMessages(a, cur),
        shouldStop |-> (a = "stop")]

\* (mutant) the messages of the hook are added to the current ones
ApplyHookMessagesAppends(cur, hookResult) ==
  IF hookResult.defined THEN cur \o hookResult.messages ELSE cur

\* if (hookResult) { if (hookResult.messages) currentMessages = ... }
ApplyHookMessages(cur, hookResult) ==
  IF hookResult.defined THEN hookResult.messages ELSE cur

\* if (hookResult_before) toolCall.args = hookResult_before.toolInput
ApplyHookInput(args, hookResult) ==
  IF hookResult.defined THEN hookResult.toolInput ELSE args

\* (mutant) the catch swallows the error without answering the request
CatchToolErrorSilent(t, c) == t

\* the catch of the loop body: the error becomes a tool-result message
CatchToolError(t, c) ==
  LET errorMessage == ToolMessage(c.id, "Error: failure")
  IN [t EXCEPT !.toolMessages = Append(@, errorMessage),
               !.currentMessages = Append(@, errorMessage)]

\* the tool is not in the resolved set
ToolNotFound(t, c) ==
  [t EXCEPT !.toolMessages = Append(@, ToolMessage(c.id, "Error: not found"))]

\* toolCall.args = ...: the request is the object held by the assistant
\* message, so every sequence that holds that message sees the new args
AssignArgs(msgs, id, args) ==
  [i \in 1..Len(msgs) |->
     [msgs[i] EXCEPT !.calls =
        [k \in 1..Len(msgs[i].calls) |->
           IF msgs[i].calls[k].id = id
           THEN [msgs[i].calls[k] EXCEPT !.args = args]
           ELSE msgs[i].calls[k]]]]

\* a hook call: what the hook was given and what it returned (nothing when
\* it threw)
HookCall(hook, c, msgs, hookResult) ==
  [hook |-> hook, id |-> c.id, messages |-> msgs, toolInput |-> c.args,
   result |-> hookResult]

\* One pass of the loop body of executeToolsWithHooks for request c, with
\* the outcome b of the before-hook, o of the tool and a of the after-hook.
\* The result is the locals after the pass, whether the stop flag was set,
\* the request as the pass leaves it, what was called and what it did (for
\* calllog; the calls of this.streamingCallback are among them), what the
\* hooks were given and returned, the streaming locals, the events handed to the
\* callback (ev) and those of them handed over without awaiting the
\* delivery (floating).
ProcessCall(t, s, c, b, o, a) ==
  IF c.name \notin agentTools
  THEN [t |-> ToolNotFound(t, c), stop |-> FALSE, call |-> c,
        log |-> << <<"notfound", c.id>> >>, given |-> <<>>, s |-> s,
        ev |-> <<>>, floating |-> <<>>]
  ELSE
  LET lb == IF b = "none" THEN <<>> ELSE << <<"before", c.id>> >>
      la == IF a = "none" THEN <<>> ELSE << <<"after", c.id>> >>
      li == << <<"invoke", c.id>> >>
      ls == When(ThisCallback, << <<"tool_start", c.id>> >>)
      lc == When(ThisCallback, << <<"tool_complete", c.id>> >>)
      before == BeforeHookResult(b, t.currentMessages, c.args)
      call == [c EXCEPT !.args = ApplyHookInput(@, before)]
      tb == [t EXCEPT
               !.currentMessages =
                  AssignArgs(ApplyHookMessages(@, before), c.id, call.args),
               !.calls = [@ EXCEPT ![t.idx + 1] = call]]
      toolMessage == ToolMessage(c.id, "output")
      pushed == [tb EXCEPT !.toolMessages = Append(@, toolMessage),
                           !.currentMessages = Append(@, toolMessage)]
      after == AfterHookResult(a, pushed.currentMessages)
      ta == [pushed EXCEPT !.currentMessages = ApplyHookMessages(@, after)]
      gb == IF b = "none" THEN <<>>
            ELSE <<HookCall("before", c, t.currentMessages,
                            IF b = "throw" THEN NoHookResult ELSE before)>>
      ga == IF a = "none" THEN <<>>
            ELSE <<HookCall("after", call, pushed.currentMessages,
                            IF a = "throw" THEN NoHookResult ELSE after)>>
      started == IF Streaming THEN OnToolStart(s, call) ELSE s
      ended == IF Streaming THEN OnToolEnd(started, call, "output") ELSE s
      fstart == When(ThisCallback, <<Event("tool_start")>>)
      fend == When(ThisCallback, <<Event("tool_complete")>>)
      estart == When(Streaming, <<Event("tool_start")>>)
      eend == When(Streaming, <<Event("tool_complete")>>)
  IN IF b = "throw"
     THEN [t |-> CatchToolError(t, c), stop |-> FALSE, call |-> c,
           log |-> lb \o << <<"before_threw", c.id>> >>, given |-> gb,
           s |-> s, ev |-> <<>>, floating |-> <<>>]
     ELSE IF o = "throw"
     THEN [t |-> CatchToolError(tb, c), stop |-> FALSE, call |-> call,
           log |-> lb \o ls \o li \o << <<"tool_threw", c.id>> >>,
           given |-> gb, s |-> started,
           ev |-> fstart \o estart, floating |-> fstart]
     ELSE IF a = "throw"
     THEN [t |-> CatchToolError(pushed, c), stop |-> FALSE, call |-> call,
           log |-> lb \o ls \o li \o la \o << <<"after_threw", c.id>> >>,
           given |-> gb \o ga, s |-> ended,
           ev |-> fstart \o estart \o eend, floating |-> fstart]
     ELSE [t |-> ta, stop |-> after.defined /\ after.shouldStop,
           call |-> call,
           log |-> lb \o ls \o li \o la \o
                   (IF a = "stop" THEN << <<"stop", c.id>> >> ELSE <<>>)
                   \o lc,
           given |-> gb \o ga, s |-> ended,
           ev |-> fstart \o estart \o eend \o fend,
           floating |-> fstart \o fend]

\* the return of executeToolsWithHooks: the whole sequence when its length
\* is not that of the input plus the tool messages, else the tool messages
ToolsReturn(t, msgs) ==
  IF Len(t.currentMessages) # Len(msgs) + Len(t.toolMessages)
  THEN t.currentMessages
  ELSE t.toolMessages

\* the head of executeToolsWithHooks
ToolsEnter(msgs) ==
  [calls |-> Last(msgs).calls, idx |-> 0, toolMessages |-> <<>>,
   currentMessages |-> msgs]

\* (mutant) the head of the function leaves the flag as it is
StopFlagAtEntryKept(flag) == flag

\* this.shouldStopAfterTools = false at the head of executeToolsWithHooks
StopFlagAtEntry(flag) == FALSE

\* One request of executeToolsWithHooks with the outcomes b, o, a: the
\* locals, the stop flag and the streaming locals after it, and, when it
\* was the last request of the turn, the messages the node leaves in the
\* graph state and the node the edge leads to.  Until then the graph state
\* holds what it held, with the request as the pass left it.
ToolStepOutcome(b, o, a) ==
  LET entering == turn.idx = Len(turn.calls)
      t0 == IF entering THEN ToolsEnter(messages) ELSE turn
      stop0 == IF entering THEN StopFlagAtEntry(shouldStopAfterTools)
               ELSE shouldStopAfterTools
      c == t0.calls[t0.idx + 1]
      r == ProcessCall(t0, stream, c, b, o, a)
      t1 == [r.t EXCEPT !.idx = @ + 1]
      stop1 == stop0 \/ r.stop
      last == t1.idx >= Len(t1.calls)
      held == AssignArgs(messages, c.id, r.call.args)
  IN [turn |-> t1, stop |-> stop1, last |-> last,
      stream |-> IF last /\ Streaming
                 THEN [r.s EXCEPT !.iterations = r.s.currentIteration]
                 ELSE r.s,
      messages |-> IF last
                   THEN messagesStateReducer(held, ToolsReturn(t1, messages))
                   ELSE held,
      next |-> shouldContinueAfterTools(stop1),
      log |-> r.log, given |-> r.given, ev |-> r.ev, floating |-> r.floating]

\* executeToolsWithHooks, one request per step: the first step of a turn
\* includes the head of the function (the stop flag is reset), the last one
\* its return, the reducer and the edge out of the tools node.  Between
\* turns, turn keeps the locals the last turn ended with.
ToolStep ==
  /\ pc = "tools"
  /\ \E b \in BeforeOutcomes, o \in ToolOutcomes, a \in AfterOutcomes :
       \E out \in {ToolStepOutcome(b, o, a)} :
          /\ calllog' = calllog \o out.log
          /\ shouldStopAfterTools' = out.stop
          /\ turn' = out.turn
          /\ hookLog' = hookLog \o out.given
          /\ IF ~out.last
             THEN /\ stream' = out.stream
                  /\ messages' = out.messages
                  /\ Deliver(out.ev, out.floating)
                  /\ UNCHANGED <<pc, nodeLog, result, escaped>>
             ELSE /\ AfterNode("tools", out.messages, out.next, out.stream)
                  /\ Deliver(out.ev \o When(pc' = "done", Complete),
                             out.floating)
  /\ UNCHANGED <<oauthVars, params, attempt, issued, fetches, toolCredentials, peer,
                 backoff>>

Next ==
  \/ Start
  \/ BuildHumanMessage
  \/ AgentAttemptFails
  \/ AgentResponds
  \/ ToolStep

Spec == Init /\ [][Next]_vars

\* ------------------------------------------------ a slow streaming callback
\* the promise of a delivery that nobody awaits settles at some later time
CallbackSettles ==
  /\ pending # <<>>
  /\ \E i \in 1..Len(pending) : pending' = RemoveAt(pending, i)
  /\ UNCHANGED <<oauthVars, params, pc, messages, nodeLog, attempt, issued,
                 shouldStopAfterTools, turn, stream, calllog, result, escaped,
                 events, fetches, toolCredentials, peer,
                 hookLog, backoff>>

\* runs with one known tool, an after-hook and no before-hook
Simple(p) ==
  /\ ~p.jsonMode
  /\ p.tools = {KnownTool}
  /\ ~p.beforeToolCall
  /\ p.afterToolCall

\* the streaming runs, with a callback that is or is not also the
\* constructor's, and a generation call that may be retried
ParamsStreaming ==
  {p \in ParamsOf({"actionWithStreaming"},
                  {<<"openai", Keyed>>, <<"acme", Keyed>>},
                  BOOLEAN, {<<>>, <<"dead">>}, {EmptyMap}) :
     Simple(p) /\ p.maxRetries = MaxRetriesBound}

NextStreaming == Next \/ CallbackSettles

SpecStreaming == InitOf(ParamsStreaming) /\ [][NextStreaming]_vars

\* ------------------------------------- two invocations on one instance
\* A second invocation of the same AIAgentBubble object runs the same
\* methods on the same fields.  Of that run the model keeps what touches
\* this.shouldStopAfterTools: the head of executeToolsWithHooks, the
\* after-hook that asks for a stop, and the edge out of its tools node.
PeerEntersTools ==
  /\ peer.pc \in {"idle", "agent"}
  /\ peer.turns < MaxPeerTurns
  /\ shouldStopAfterTools' = StopFlagAtEntry(shouldStopAfterTools)
  /\ peer' = [pc |-> "tools", requested |-> FALSE, turns |-> peer.turns + 1]
  /\ UNCHANGED <<oauthVars, params, pc, messages, nodeLog, attempt, issued, turn, stream,
                 calllog, result, escaped, events, pending, fetches,
                 toolCredentials,
                 hookLog, backoff>>

PeerAfterHookStops ==
  /\ peer.pc = "tools"
  /\ ~peer.requested
  /\ shouldStopAfterTools' = TRUE
  /\ peer' = [peer EXCEPT !.requested = TRUE]
  /\ UNCHANGED <<oauthVars, params, pc, messages, nodeLog, attempt, issued, turn, stream,
                 calllog, result, escaped, events, pending, fetches,
                 toolCredentials,
                 hookLog, backoff>>

PeerToolsReturn ==
  /\ peer.pc = "tools"
  /\ peer' = [peer EXCEPT
                !.pc = IF shouldContinueAfterTools(shouldStopAfterTools) = "agent"
                       THEN "agent" ELSE "done"]
  /\ UNCHANGED <<oauthVars, params, pc, messages, nodeLog, attempt, issued,
                 shouldStopAfterTools, turn, stream, calllog, result, escaped,
                 events, pending, fetches, toolCredentials,
                 hookLog, backoff>>

\* runs with one known tool, an after-hook, no before-hook and no retries
Plain(p) ==
  /\ p.maxRetries = 0
  /\ Simple(p)

ParamsTwoRuns ==
  {p \in ParamsOf({"performAction"}, {<<"openai", Keyed>>}, {FALSE}, {<<>>},
                  {EmptyMap}) : Plain(p)}

NextTwoRuns == Next \/ PeerEntersTools \/ PeerAfterHookStops \/ PeerToolsReturn

SpecTwoRuns == InitOf(ParamsTwoRuns) /\ [][NextTwoRuns]_vars

\* ---------------------------------- a run after another on one instance
\* The other invocation has returned before this one begins: it runs while
\* this one has not started, and this one runs once the other has left its
\* tool stage for good.
EarlierRunOver == peer.pc # "tools"

NextEarlierRun ==
  \/ pc = "start" /\ PeerEntersTools
  \/ pc = "start" /\ PeerAfterHookStops
  \/ pc = "start" /\ PeerToolsReturn
  \/ EarlierRunOver /\ Start
  \/ EarlierRunOver /\ BuildHumanMessage
  \/ EarlierRunOver /\ AgentAttemptFails
  \/ EarlierRunOver /\ AgentResponds
  \/ EarlierRunOver /\ ToolStep

SpecEarlierRun == InitOf(ParamsTwoRuns) /\ [][NextEarlierRun]_vars

\* ----------------------------------------- the credentials of the agent
\* every kind of model configuration: a keyed provider, an unsupported
\* one, no credentials at all, and a map without the provider's credential
Keyless == Credentials([t \in {FIRECRAWL_API_KEY} |-> "x"])

ParamsConfigurations ==
  {p \in ParamsOf({"performAction", "actionWithStreaming"},
                  {<<"openai", Keyed>>, <<"acme", Keyed>>,
                   <<"openai", NoCredentials>>,
                   <<"openai", Credentials(EmptyMap)>>, <<"openai", Keyless>>},
                  {FALSE}, {<<>>, <<"url">>}, {EmptyMap}) :
     Plain(p)}

SpecConfigurations == InitOf(ParamsConfigurations) /\ [][Next]_vars

\* every credential map of the agent that holds the provider's key, with
\* every map of explicit per-tool credentials
KeyedMaps == {m \in CredentialMaps :
                OPENAI_CRED \in DOMAIN m /\ m[OPENAI_CRED] = "x"}

ParamsCredentials ==
  {p \in ParamsOf({"performAction"},
                  {<<"openai", Credentials(m)>> : m \in KeyedMaps},
                  {FALSE}, {<<>>}, CredentialMaps) :
     Plain(p) /\ p.maxIterations = MinIterations}

SpecCredentials == InitOf(ParamsCredentials) /\ [][Next]_vars

\* ------------------------------------------------------ the attachments
ParamsImages ==
  {p \in ParamsOf({"performAction", "actionWithStreaming"},
                  {<<"openai", Keyed>>}, {FALSE}, ImageLists, {EmptyMap}) :
     Plain(p) /\ p.maxIterations = MinIterations}

SpecImages == InitOf(ParamsImages) /\ [][Next]_vars

\* ------------------------------------------ a run with an event emitter
\* runs created with a streamingCallback (this.streamingCallback), by
\* either entry point, with one known tool and any hooks
ParamsEmitter ==
  {p \in ParamsOf({"performAction", "actionWithStreaming"},
                  {<<"openai", Keyed>>}, {TRUE}, {<<>>}, {EmptyMap}) :
     ~p.jsonMode /\ p.tools = {KnownTool} /\ p.maxRetries = 0}

SpecEmitter == InitOf(ParamsEmitter) /\ [][Next]_vars

\* ------------------------------------------------ hooks that rewrite
\* non-streaming runs with one known tool and at least one hook, whose
\* hooks may return another message sequence or other arguments
ParamsHooks ==
  {[p EXCEPT !.hooksRewrite = TRUE] :
     p \in {q \in ParamsOf({"performAction"}, {<<"openai", Keyed>>}, {FALSE},
                           {<<>>}, {EmptyMap}) :
              /\ ~q.jsonMode /\ q.tools = {KnownTool} /\ q.maxRetries = 0
              /\ (q.beforeToolCall \/ q.afterToolCall)}}

SpecHooks == InitOf(ParamsHooks) /\ [][Next]_vars

\* ------------------------------------------- a generation call retried
\* runs whose generation call may fail up to MaxBackoffRetries times, with
\* every value of Math.random()
ParamsBackoff ==
  {[p EXCEPT !.maxRetries = r, !.randoms = 0..(RandomSteps - 1)] :
     p \in {q \in ParamsOf({"performAction"}, {<<"openai", Keyed>>}, {FALSE},
                           {<<>>}, {EmptyMap}) :
              Plain(q) /\ q.maxIterations = MinIterations},
     r \in 2..MaxBackoffRetries}

SpecBackoff == InitOf(ParamsBackoff) /\ [][Next]_vars

\* ------------------------------------------------------ the OAuth service
\* OAuthService (src/apps/bubblelab-api/src/services/oauth-service.ts).
\* Times are minutes on the clock Date.now() reads.  A method runs without
\* interruption up to its first await on the provider; what follows the
\* await is a step of its own, so calls interleave there.

\* CredentialType members of the OAuth providers
GMAIL_CRED == "GMAIL_CRED"
FUB_CRED == "FUB_CRED"

\* OAUTH_PROVIDERS[provider].credentialTypes[credentialType]?.defaultScopes
OAUTH_PROVIDERS(provider) ==
  IF provider = "google"
  THEN [t \in {GMAIL_CRED} |-> <<"gmail.send">>]
  ELSE [t \in {FUB_CRED} |-> <<>>]

getDefaultScopes(provider, credentialType) ==
  IF credentialType \in DOMAIN OAUTH_PROVIDERS(provider)
  THEN OAUTH_PROVIDERS(provider)[credentialType]
  ELSE <<>>

\* getCredentialConfig throws for a type the provider does not have
getCredentialConfigThrows(provider, credentialType) ==
  credentialType \notin DOMAIN OAUTH_PROVIDERS(provider)

NoScopes == [defined |-> FALSE]
Scopes(value) == [defined |-> TRUE, value |-> value]

\* the calls of initiateOAuth drawn: two users, both providers, default
\* and requested scopes, and a credential type of the other provider
InitiateCalls ==
  {[provider |-> "google", userId |-> "u1", credentialType |-> GMAIL_CRED,
    scopes |-> NoScopes],
   [provider |-> "google", userId |-> "u2", credentialType |-> GMAIL_CRED,
    scopes |-> Scopes(<<"gmail.readonly">>)],
   [provider |-> "followupboss", userId |-> "u1", credentialType |-> FUB_CRED,
    scopes |-> NoScopes],
   [provider |-> "google", userId |-> "u1", credentialType |-> FUB_CRED,
    scopes |-> NoScopes]}

StateMinutes == 10     \* 10 * 60 * 1000 ms: how long a state is accepted
BufferMinutes == 5     \* 5 * 60 * 1000 ms: the refresh buffer
TickMinutes == 10      \* the clock is read every ten minutes
TokenMinutes == 15     \* expires_in of the tokens the providers hand out

\* the calls of the OAuth service and the advances of the clock of one run
MaxStates == 1         \* calls of initiateOAuth
MaxCallbacks == 2      \* calls of handleOAuthCallback that reach the exchange
MaxTokens == 2         \* tokens the providers hand out
MaxTicks == 2          \* advances of the clock

\* oauthLog keeps, for each state value, its return to the caller, the
\* callbacks that went on to the token exchange and the credentials stored,
\* in order; oauthResult is what the last call returned or threw, or that
\* it waits for the provider
Threw(op, state, message) ==
  [op |-> op, state |-> state, threw |-> TRUE, message |-> message]

Returns(op, state) ==
  [op |-> op, state |-> state, threw |-> FALSE, message |-> ""]

Awaits(op, state) ==
  [op |-> op, state |-> state, threw |-> FALSE, message |-> "await"]

LogOf(state) ==
  IF state \in DOMAIN oauthLog THEN oauthLog[state] ELSE <<>>

LogAppend(state, e) ==
  [s \in DOMAIN oauthLog \cup {state} |->
     IF s = state THEN Append(LogOf(state), e) ELSE oauthLog[s]]

OpEntries(op) ==
  {si \in UNION {{<<s, i>> : i \in 1..Len(oauthLog[s])} : s \in DOMAIN oauthLog} :
     oauthLog[si[1]][si[2]].op = op}

OpCount(op) == Cardinality(OpEntries(op))

\* stateStore.delete(state)
StoreDelete(store, state) ==
  [s \in DOMAIN store \ {state} |-> store[s]]

\* stateStore.set(state, data)
StoreSet(store, state, data) ==
  [s \in DOMAIN store \cup {state} |-> IF s = state THEN data ELSE store[s]]

\* (mutant) a state is never too old
StateExpiredNever(time, timestamp) == FALSE

\* Date.now() - stateData.timestamp > 10 * 60 * 1000
StateExpired(time, timestamp) == time - timestamp > StateMinutes

\* initiateOAuth up to the await of getAuthorizeUri: the client lookup
\* (which throws for a provider that is not configured), the new state
\* value, the check of the credential type (which throws too), and
\* stateStore.set
initiateOAuth(call) ==
  /\ uuids < MaxStates
  /\ IF call.provider \notin clients
     THEN /\ oauthResult' =
               Threw("initiateOAuth", 0, "OAuth provider not supported")
          /\ UNCHANGED <<uuids, stateStore, authorizing>>
     ELSE /\ uuids' = uuids + 1
          /\ IF getCredentialConfigThrows(call.provider, call.credentialType)
             THEN /\ oauthResult' =
                       Threw("initiateOAuth", uuids + 1,
                             "Credential type not supported")
                  /\ UNCHANGED <<stateStore, authorizing>>
             ELSE /\ stateStore' =
                       StoreSet(stateStore, uuids + 1,
                         [userId |-> call.userId,
                          provider |-> call.provider,
                          credentialType |-> call.credentialType,
                          timestamp |-> now,
                          scopes |-> IF call.scopes.defined
                                     THEN call.scopes.value
                                     ELSE getDefaultScopes(call.provider,
                                                           call.credentialType)])
                  /\ authorizing' = authorizing \cup {uuids + 1}
                  /\ oauthResult' = Awaits("initiateOAuth", uuids + 1)
  /\ UNCHANGED <<agentVars, clients, now, userCredentials, exchanging, minted,
                 oauthLog>>

\* the rest of initiateOAuth: the authorize URI arrives and the state is
\* returned to the caller, or the call for it fails and the state is deleted
getAuthorizeUriSettles(state, ok) ==
  /\ state \in authorizing
  /\ authorizing' = authorizing \ {state}
  /\ IF ok
     THEN /\ oauthLog' = LogAppend(state,
                [op |-> "initiateOAuth", state |-> state,
                 data |-> IF state \in DOMAIN stateStore
                          THEN stateStore[state] ELSE NoScopes])
          /\ oauthResult' = Returns("initiateOAuth", state)
          /\ UNCHANGED stateStore
     ELSE /\ stateStore' = StoreDelete(stateStore, state)
          /\ oauthResult' =
               Threw("initiateOAuth", state,
                     "Failed to generate OAuth authorization URL")
          /\ UNCHANGED oauthLog
  /\ UNCHANGED <<agentVars, clients, uuids, now, userCredentials, exchanging,
                 minted>>

\* the states initiateOAuth has returned to a caller
ReturnedStates == {si[1] : si \in OpEntries("initiateOAuth")}

\* (mutant) the state stays in the store while the code is exchanged
AcceptStateKeeps(store, state) == store

\* // Clean up state: this.stateStore.delete(state), before the exchange
AcceptState(store, state) == StoreDelete(store, state)

\* handleOAuthCallback up to the await of the token exchange: the state is
\* looked up, checked against the provider and the clock, and deleted
handleOAuthCallback(provider, state) ==
  /\ OpCount("handleOAuthCallback") < MaxCallbacks
  /\ LET known == state \in DOMAIN stateStore IN
     IF ~known \/ stateStore[state].provider # provider
     THEN /\ oauthResult' = Threw("handleOAuthCallback", state,
                                  "Invalid or expired state parameter")
          /\ UNCHANGED <<stateStore, exchanging, oauthLog>>
     ELSE IF StateExpired(now, stateStore[state].timestamp)
     THEN /\ stateStore' = StoreDelete(stateStore, state)
          /\ oauthResult' = Threw("handleOAuthCallback", state,
                                  "State parameter expired")
          /\ UNCHANGED <<exchanging, oauthLog>>
     ELSE /\ stateStore' = AcceptState(stateStore, state)
          /\ oauthLog' = LogAppend(state,
                [op |-> "handleOAuthCallback", state |-> state,
                 provider |-> provider, time |-> now,
                 stateData |-> stateStore[state]])
          /\ exchanging' =
               Append(exchanging, [provider |-> provider, state |-> state,
                                   stateData |-> stateStore[state]])
          /\ oauthResult' = Awaits("handleOAuthCallback", state)
  /\ UNCHANGED <<agentVars, clients, uuids, authorizing, now, userCredentials,
                 minted>>

NoToken == <<>>        \* null / undefined where a token string may stand
NoDate == -1           \* null where a Date may stand

\* CredentialEncryption.encrypt / decrypt
Encrypt(text) == <<"encrypted", text>>
Decrypt(cipher) == cipher[2]

\* the token of a provider's response: the n-th access token, a refresh
\* token or none, an expiry time or none
OAuth2Token(n, refreshable, expiring) ==
  [accessToken |-> <<"access", n>>,
   refreshToken |-> IF refreshable THEN <<"refresh", n>> ELSE NoToken,
   expiresAt |-> IF expiring THEN now + TokenMinutes ELSE NoDate]

\* storeOAuthToken: the row inserted into userCredentials
storeOAuthToken(userId, provider, credentialType, token, requestedScopes) ==
  [userId |-> userId,
   credentialType |-> credentialType,
   isOauth |-> TRUE,
   oauthAccessToken |-> Encrypt(token.accessToken),
   oauthRefreshToken |-> IF token.refreshToken # NoToken
                         THEN Encrypt(token.refreshToken) ELSE NoToken,
   oauthExpiresAt |-> token.expiresAt,
   oauthScopes |-> requestedScopes,
   oauthProvider |-> provider]

\* the rest of handleOAuthCallback: the token exchange fails, or it returns
\* a token and the credential is stored
getTokenSettles(i, ok, refreshable, expiring) ==
  /\ i \in 1..Len(exchanging)
  /\ ok => minted < MaxTokens
  /\ exchanging' = RemoveAt(exchanging, i)
  /\ LET call == exchanging[i]
         token == OAuth2Token(minted + 1, refreshable, expiring)
     IN IF ok
        THEN /\ minted' = minted + 1
             /\ userCredentials' =
                  Append(userCredentials,
                         storeOAuthToken(call.stateData.userId, call.provider,
                                         call.stateData.credentialType, token,
                                         call.stateData.scopes))
             /\ oauthLog' = LogAppend(call.state,
                   [op |-> "storeOAuthToken", state |-> call.state,
                    credentialId |-> Len(userCredentials) + 1])
             /\ oauthResult' = Returns("handleOAuthCallback", call.state)
        ELSE /\ oauthResult' = Threw("handleOAuthCallback", call.state,
                                     "OAuth token exchange failed")
             /\ UNCHANGED <<minted, userCredentials, oauthLog>>
  /\ UNCHANGED <<agentVars, clients, stateStore, uuids, authorizing, now>>

\* cleanupExpiredStates, run by the timer of the constructor
cleanupExpiredStates ==
  /\ \E s \in DOMAIN stateStore : StateExpired(now, stateStore[s].timestamp)
  /\ stateStore' =
       [s \in {x \in DOMAIN stateStore :
                 ~StateExpired(now, stateStore[x].timestamp)} |-> stateStore[s]]
  /\ UNCHANGED <<agentVars, clients, uuids, authorizing, now, userCredentials,
                 exchanging, minted, oauthLog, oauthResult>>

\* time passes
Tick ==
  /\ now < MaxTicks * TickMinutes
  /\ now' = now + TickMinutes
  /\ UNCHANGED <<agentVars, clients, stateStore, uuids, authorizing,
                 userCredentials, exchanging, minted, oauthLog, oauthResult>>

Null == <<"null">>

\* updateStoredToken: a refresh token that is undefined is left as it is
updateStoredToken(row, token) ==
  [row EXCEPT !.oauthAccessToken = Encrypt(token.accessToken),
              !.oauthRefreshToken = IF token.refreshToken # NoToken
                                    THEN Encrypt(token.refreshToken) ELSE @,
              !.oauthExpiresAt = token.expiresAt]

\* expiresAt && expiresAt < fiveMinutesFromNow && credential.oauthRefreshToken
NeedsRefresh(row, time) ==
  /\ row.oauthExpiresAt # NoDate
  /\ row.oauthExpiresAt < time + BufferMinutes
  /\ row.oauthRefreshToken # NoToken

\* getValidToken(credentialId): ok says whether the call it makes (the
\* refresh at the provider, or the decryption of the stored token) succeeds
getValidToken(credentialId, ok, refreshable, expiring) ==
  /\ LET found == credentialId \in 1..Len(userCredentials)
         row == userCredentials[credentialId]
         token == OAuth2Token(minted + 1, refreshable, expiring)
         entry(returned, refreshed) ==
           [op |-> "getValidToken", state |-> 0, threw |-> FALSE,
            message |-> "", credentialId |-> credentialId, time |-> now,
            row |-> IF found THEN row ELSE NoScopes,
            returned |-> returned, refreshed |-> refreshed]
     IN IF ~found
        THEN /\ oauthResult' = entry(Null, FALSE)
             /\ UNCHANGED <<minted, userCredentials>>
        ELSE IF NeedsRefresh(row, now)
        THEN IF ok /\ minted < MaxTokens
             THEN /\ minted' = minted + 1
                  /\ userCredentials' =
                       [userCredentials EXCEPT
                          ![credentialId] = updateStoredToken(row, token)]
                  /\ oauthResult' = entry(token.accessToken, TRUE)
             ELSE /\ oauthResult' = entry(Null, FALSE)
                  /\ UNCHANGED <<minted, userCredentials>>
        ELSE /\ oauthResult' =
                  entry(IF ok THEN Decrypt(row.oauthAccessToken) ELSE Null,
                        FALSE)
             /\ UNCHANGED <<minted, userCredentials>>
  /\ UNCHANGED <<agentVars, clients, stateStore, uuids, authorizing, now,
                 exchanging, oauthLog>>

\* the calls on the way to a stored credential, with every input and every
\* failure of the provider
NextOAuth ==
  \/ \E call \in InitiateCalls : initiateOAuth(call)
  \/ \E state \in 1..MaxStates, ok \in BOOLEAN :
       getAuthorizeUriSettles(state, ok)
  \/ \E provider \in OAuthProviders, state \in ReturnedStates \cup {0} :
       handleOAuthCallback(provider, state)
  \/ \E i \in 1..MaxCallbacks, ok \in BOOLEAN :
       getTokenSettles(i, ok, TRUE, TRUE)
  \/ cleanupExpiredStates
  \/ Tick

\* the agent is not run
ParamsIdle == {p \in ParamsTwoRuns : p.maxIterations = MinIterations}

\* of the two providers, google is configured
InitOAuth == AgentInit(ParamsIdle) /\ OAuthInit({{"google"}})

SpecOAuth == InitOAuth /\ [][NextOAuth]_vars

\* one user's way to a stored credential without a failure or a delay,
\* every kind of token, and the reads of the credential that follow as
\* time passes
FirstCall ==
  [provider |-> "google", userId |-> "u1", credentialType |-> GMAIL_CRED,
   scopes |-> NoScopes]

NextTokens ==
  \/ uuids = 0 /\ initiateOAuth(FirstCall)
  \/ getAuthorizeUriSettles(1, TRUE)
  \/ userCredentials = <<>> /\ handleOAuthCallback("google", 1)
  \/ \E refreshable, expiring \in BOOLEAN :
       getTokenSettles(1, TRUE, refreshable, expiring)
  \/ userCredentials # <<>> /\ Tick
  \/ \E credentialId \in 0..1, ok, refreshable, expiring \in BOOLEAN :
       getValidToken(credentialId, ok, refreshable, expiring)

SpecTokens == InitOAuth /\ [][NextTokens]_vars

\* ------------------------------------------------------------ properties
IsTool(m) == m.role = "tool"

RequestIds(calls) == [i \in 1..Len(calls) |-> calls[i].id]

\* ids of the tool-result messages that follow the last assistant message
ToolResultIds(msgs) ==
  LET k == MaxOf({i \in 1..Len(msgs) : msgs[i].role = "ai"})
      results == SelectSeq(SubSeq(msgs, k + 1, Len(msgs)), IsTool)
  IN [i \in 1..Len(results) |-> results[i].tcid]

\* the tools node is the node that ran last: a TOOL_TURN has just ended
TurnEnded == nodeLog # <<>> /\ Last(nodeLog) = "tools"

Logged(op, id) == \E i \in 1..Len(calllog) : calllog[i] = <<op, id>>

Processed(id) == \E i \in 1..Len(calllog) : calllog[i][2] = id

\* tool calls of the run whose executor returned
Returned == {i \in 1..Len(calllog) :
               calllog[i][1] = "invoke" /\ ~Logged("tool_threw", calllog[i][2])}

ResultFields == {"response", "toolCalls", "iterations", "error", "success"}

\* C1: at the end of every TOOL_TURN the conversation holds, after the
\* triggering assistant message, exactly one tool-result message per
\* request of that message, in request order, whatever each call did.
C1_EveryRequestAnsweredOnce ==
  TurnEnded => ToolResultIds(messages) = RequestIds(turn.calls)

\* C2: a run never executes more state-machine steps (MODEL_TURN plus
\* TOOL_TURN) than maxIterations.
C2_StepsWithinBudget == Len(nodeLog) <= params.maxIterations

\* the budget is used up and the model has just requested tools again
C2_Witness ==
  /\ pc = "done"
  /\ Len(nodeLog) = params.maxIterations
  /\ Last(nodeLog) = "agent"
  /\ Len(nodeLog) >= 3
  /\ AfterAgent(messages) = "tools"

\* the run ended because the graph had a node left to run after
\* maxIterations steps
BudgetExhausted ==
  /\ pc = "done"
  /\ Len(nodeLog) = params.maxIterations
  /\ \/ Last(nodeLog) = "agent" /\ AfterAgent(messages) = "tools"
     \/ Last(nodeLog) = "tools" /\ ~shouldStopAfterTools

\* C3: when the budget runs out while the model still requests tools, the
\* result carries no error, and its toolCalls and iterations reflect the
\* turns that completed.
C3_BudgetExhaustionIsNoError ==
  BudgetExhausted =>
    /\ result.error = <<>>
    /\ result.iterations > 0
    /\ (Returned # {} => result.toolCalls # <<>>)

\* C4: a run whose first model response requests no tool returns
\* iterations = 1 and toolCalls = [].
C4_NoToolRunIsOneIteration ==
  (pc = "done" /\ nodeLog = <<"agent">> /\ Last(messages).calls = <<>>) =>
    (result.iterations = 1 /\ result.toolCalls = <<>>)

ModelTurnCompleted == nodeLog' = Append(nodeLog, "agent")

\* C5 as claimed: after a MODEL_TURN the run enters TOOL_TURN exactly when
\* the response has a request and the tool set is non-empty; otherwise it
\* ends without calling a tool or hook.
C5_ToolTurnIffRequestsAndTools ==
  [][ModelTurnCompleted =>
       /\ (pc' = "tools") <=>
            (Len(Last(messages').calls) > 0 /\ agentTools # {})
       /\ (pc' # "tools" => pc' = "done" /\ calllog' = calllog)]_vars

\* C5 as amended: ... exactly when the response has a request, the tool
\* set is non-empty and the step budget is not used up; otherwise the run
\* ends, and an ended run calls no tool or hook.
C5_ToolTurnIffRequestsToolsAndBudget ==
  [][/\ ModelTurnCompleted =>
          /\ (pc' = "tools") <=>
               /\ Len(Last(messages').calls) > 0
               /\ agentTools # {}
               /\ Len(nodeLog') < params.maxIterations
          /\ (pc' # "tools" => pc' = "done" /\ calllog' = calllog)
     /\ pc = "done" => (pc' = "done" /\ calllog' = calllog)]_vars

\* a TOOL_TURN has been entered from a MODEL_TURN
C5_Witness ==
  /\ pc = "tools"
  /\ Last(nodeLog) = "agent"
  /\ Len(Last(messages).calls) > 0
  /\ agentTools # {}

\* every request of the last turn has a tool-result in the conversation
AllAnswered ==
  \A i \in 1..Len(turn.calls) :
    \E j \in 1..Len(messages) :
      messages[j].role = "tool" /\ messages[j].tcid = turn.calls[i].id

\* C6 (first sentence): when an after-hook has set the stop flag in a turn,
\* every request of the turn is still answered and the run ends after the
\* turn with no further MODEL_TURN.
C6_StopEndsRunAfterWholeTurn ==
  (TurnEnded /\ shouldStopAfterTools) => (AllAnswered /\ pc = "done")

HasErrorResult(msgs, id) ==
  Cardinality({i \in 1..Len(msgs) :
     msgs[i].role = "tool" /\ msgs[i].tcid = id
       /\ msgs[i].content = "Error: failure"}) = 1

\* what C7 says of a request whose executor threw, up to where the run goes
ThrowAnswered(i) ==
  /\ HasErrorResult(turn.toolMessages, turn.calls[i].id)
  /\ HasErrorResult(messages, turn.calls[i].id)
  /\ \A j \in (i + 1)..Len(turn.calls) : Processed(turn.calls[j].id)
  /\ pc = "done" => result.error # <<"failure">>

ToolTurnCompleted == nodeLog' = Append(nodeLog, "tools")

\* C7 as claimed: after an executor throws, the request is answered with
\* the error, the rest of the turn runs, and the run goes to the next
\* MODEL_TURN.
C7_ToolErrorThenNextModelTurn ==
  [][ToolTurnCompleted =>
       \A i \in 1..Len(turn'.calls) :
         Logged("tool_threw", turn.calls[i].id)' =>
           (ThrowAnswered(i)' /\ pc' = "agent")]_vars

\* C7 as amended: ... and the run goes on as after any other turn: to the
\* next MODEL_TURN unless a stop was requested in the turn or the step
\* budget is used up.
C7_ToolErrorDoesNotAbort ==
  [][ToolTurnCompleted =>
       \A i \in 1..Len(turn'.calls) :
         Logged("tool_threw", turn.calls[i].id)' =>
           /\ ThrowAnswered(i)'
           /\ (pc' = "agent") <=>
                (~shouldStopAfterTools' /\ Len(nodeLog') < params.maxIterations)]_vars

\* the first of two requests threw, the second was invoked, and the run is
\* back at the model
C7_Witness ==
  /\ TurnEnded
  /\ pc = "agent"
  /\ Len(turn.calls) = 2
  /\ Logged("tool_threw", turn.calls[1].id)
  /\ Logged("invoke", turn.calls[2].id)

\* C8: no failure leaves the entry point as an exception; the caller always
\* gets a result of the uniform shape.
C8_NothingEscapes ==
  /\ ~escaped
  /\ pc = "done" =>
       /\ DOMAIN result = ResultFields
       /\ result.success \in BOOLEAN
       /\ result.iterations \in Nat

\* a configuration error came back as a result, in the streaming entry
C8_Witness ==
  /\ pc = "done"
  /\ ~escaped
  /\ Streaming
  /\ result.error = <<ErrUnsupported>>

C10_PartialResultOnModelFailure ==
  (pc = "done" /\ result.error = <<ErrProvider>> /\ Returned # {}) =>
    /\ ~result.success
    /\ result.toolCalls # <<>>
    /\ result.iterations # 0

IsTerminal(e) == e.type \in {"complete", "error"}

\* C11: in a streaming run exactly one complete or error event is handed
\* to the callback, and it is the last event: nothing follows it.
C11_ExactlyOneTerminalEvent ==
  Streaming =>
    /\ \A i \in 1..Len(events) :
         IsTerminal(events[i]) => (i = Len(events) /\ pc = "done")
    /\ pc = "done" => (events # <<>> /\ IsTerminal(Last(events)))

\* C12: the terminal event matches the outcome: complete only with
\* success = true, and a failed run ends with an error event marked
\* recoverable.
C12_TerminalEventMatchesOutcome ==
  (Streaming /\ pc = "done") =>
    /\ \A i \in 1..Len(events) :
         events[i].type = "complete" => result.success
    /\ ~result.success => Last(events) = ErrorEvent(TRUE)

\* C13: every delivery is awaited: at most one delivery is pending, and
\* while one is pending no tool or hook is called and no other delivery
\* begins.
C13_DeliveriesAwaited ==
  [][/\ Len(pending') <= 1
     /\ pending # <<>> => (calllog' = calllog /\ events' = events)]_vars

\* an after-hook of this run asked for a stop in the turn that just ended
OwnStopRequested ==
  \E i \in 1..Len(turn.calls) : Logged("stop", turn.calls[i].id)

\* C14: runs do not share run state: a stop request of this run's hook is
\* not cleared by another run, and this run is not ended after a turn by a
\* stop it did not request.
C14_RunsDoNotShareStopFlag ==
  TurnEnded =>
    /\ OwnStopRequested => pc = "done"
    /\ (/\ pc = "done"
        /\ Len(nodeLog) < params.maxIterations
        /\ result.error # <<ErrProvider>>) => OwnStopRequested

\* the entries the step adds to calllog
NewCalls == SubSeq(calllog', Len(calllog) + 1, Len(calllog'))

\* a request went through a before-hook and an after-hook that both handed
\* back what they were given
IdentityHooksStep ==
  /\ pc = "tools"
  /\ params.beforeToolCall /\ params.afterToolCall
  /\ \E id \in 1..MaxTotalCalls :
       NewCalls \in { << <<"before", id>>, <<"invoke", id>>, <<"after", id>> >>,
                      << <<"before", id>>, <<"invoke", id>>,
                         <<"tool_threw", id>> >> }

\* C15: with hooks that return their input unchanged the run does what it
\* does without hooks: the same messages, tool calls, iterations and stop
\* flag after every request.
C15_IdentityHooksChangeNothing ==
  [][IdentityHooksStep =>
       \E o \in ToolOutcomes :
       \E bare \in {ToolStepOutcome("none", o, "none")} :
         /\ turn' = bare.turn
         /\ shouldStopAfterTools' = bare.stop
         /\ stream' = bare.stream
         /\ messages' = bare.messages
         /\ events' \in {events \o bare.ev, events \o bare.ev \o Complete}
         /\ pc' \in {IF bare.last THEN bare.next ELSE "tools", "done"}]_vars

\* a first request has gone through both hooks unchanged, a second follows
C15_Witness ==
  /\ pc = "tools"
  /\ params.beforeToolCall /\ params.afterToolCall
  /\ Len(turn.calls) = 2
  /\ calllog = << <<"before", 1>>, <<"invoke", 1>>, <<"after", 1>> >>

\* the model configuration is one of the claim's: an unsupported provider,
\* no credentials, or a map without the provider's credential
ConfigurationError ==
  \/ params.provider # "openai"
  \/ ~params.credentials.present
  \/ OPENAI_CRED \notin DOMAIN params.credentials.map

\* C16: a configuration error ends the run with success = false before
\* any model call, tool resolution or image fetch.
C16_ConfigurationErrorEndsRunAtOnce ==
  ConfigurationError =>
    /\ pc \in {"start", "done"}
    /\ pc = "done" =>
         /\ ~result.success
         /\ messages = <<>> /\ nodeLog = <<>> /\ attempt = 0
         /\ fetches = <<>>
         /\ toolCredentials = <<>>

\* C17: a generation call whose attempts all fail is attempted
\* maxRetries + 1 times before the failure ends the run.
C17_AttemptsAreRetriesPlusOne ==
  (pc = "done" /\ result.error = <<ErrProvider>>) =>
    attempt = params.maxRetries + 1

\* C18: a registered tool is handed the inherited credentials overridden
\* key by key by the explicit per-tool credentials.
C18_ExplicitCredentialsWin ==
  KnownTool \in DOMAIN toolCredentials =>
    LET got == toolCredentials[KnownTool]
        explicit == params.toolConfigCredentials
    IN /\ DOMAIN explicit \subseteq DOMAIN got
       /\ \A t \in DOMAIN got :
            got[t] = IF t \in DOMAIN explicit THEN explicit[t]
                     ELSE params.credentials.map[t]

\* the tool was handed the explicit value of a credential the agent holds
\* with another value
C18_Witness ==
  /\ KnownTool \in DOMAIN toolCredentials
  /\ FIRECRAWL_API_KEY \in DOMAIN params.credentials.map
  /\ params.credentials.map[FIRECRAWL_API_KEY] = "x"
  /\ FIRECRAWL_API_KEY \in DOMAIN params.toolConfigCredentials
  /\ toolCredentials[KnownTool][FIRECRAWL_API_KEY] = "y"

\* the references the resolver has to skip
Skipped ==
  {name \in params.tools :
     \/ name \notin Registry
     \/ BubbleType(name) # "tool"
     \/ ToolAgentThrows(name)}

\* the failures a run can end with for another reason than a skipped tool
OtherFailures ==
  {<<ErrUnsupported>>, <<ErrNoCreds>>, <<ErrNoKey>>, <<ErrImage>>,
   <<ErrProvider>>, <<ErrRecursion>>, <<ErrTruncated>>, <<ErrJson>>}

\* C19: a skipped reference is left out of the tool set and the rest is
\* kept; a skipped reference alone never fails the run; with every
\* reference skipped the run is one without tools.
C19_SkippedToolsAreOmitted ==
  /\ agentTools = params.tools \ Skipped
  /\ (pc = "done" /\ ~result.success) => result.error \in OtherFailures
  /\ (pc = "done" /\ Skipped # {} /\ nodeLog = <<"agent">>
        /\ Last(messages).calls = <<>> /\ ~Last(messages).trunc
        /\ (params.jsonMode => IsJson(<<Last(messages).content>>))
        /\ Len(nodeLog) < params.maxIterations)
       => result.success
  /\ params.tools \subseteq Skipped =>
       (calllog = <<>> /\ pc # "tools" /\ Len(nodeLog) <= 1)

\* a run with a known and an unregistered reference used the known tool
\* and succeeded
C19_Witness ==
  /\ pc = "done"
  /\ params.tools = {KnownTool, GhostTool}
  /\ Logged("invoke", 1)
  /\ result.success

FirstDead ==
  CHOOSE i \in 1..Len(params.images) :
    /\ params.images[i] = "dead"
    /\ \A j \in 1..(i - 1) : params.images[j] # "dead"

\* C20: when the fetch of a remote image fails, the run makes no model
\* call and no tool call and returns a failure with an error text, and no
\* image after the failing one is fetched.
C20_ImageFetchFailureAbortsRun ==
  ((\E i \in 1..Len(params.images) : params.images[i] = "dead")
     /\ pc \notin {"start", "human"}) =>
    /\ pc = "done"
    /\ nodeLog = <<>> /\ messages = <<>> /\ attempt = 0 /\ calllog = <<>>
    /\ ~escaped
    /\ ~result.success
    /\ result.error # <<>>
    /\ \A k \in 1..Len(fetches) : fetches[k] <= FirstDead

\* the first of two remote images could not be fetched
C20_Witness ==
  /\ pc = "done"
  /\ params.images = <<"dead", "url">>
  /\ fetches = <<1>>
  /\ result.error = <<ErrImage>>

\* the text of the last assistant message of the conversation
FinalText == Last(SelectSeq(messages, IsAI)).content

\* the run has ended after a last assistant message that is not cut off and
\* is or is not a JSON document: no generation call failed for good and
\* the step limit did not end the run
EndedOnText(parsable) ==
  /\ pc = "done"
  /\ nodeLog # <<>>
  /\ attempt = 0
  /\ result.error # <<ErrRecursion>>
  /\ ~Last(SelectSeq(messages, IsAI)).trunc
  /\ IsJson(<<FinalText>>) = parsable

\* C21: in jsonMode a final assistant text that cannot be parsed gives a
\* result, not an exception, with success = false, that text as response,
\* a non-empty error, and the tool calls and iterations of the run.
C21_ParseFailureKeepsRawText ==
  (params.jsonMode /\ EndedOnText(FALSE)) =>
    /\ ~escaped
    /\ ~result.success
    /\ result.error # <<>>
    /\ result.response = <<FinalText>>
    /\ Len(result.toolCalls) >= Cardinality(Returned)
    /\ result.iterations >= 1

\* the run has ended after a last assistant message that the provider cut
\* off at the token cap
EndedOnTruncation ==
  /\ pc = "done"
  /\ nodeLog # <<>>
  /\ attempt = 0
  /\ result.error # <<ErrRecursion>>
  /\ Last(SelectSeq(messages, IsAI)).trunc

\* C22: a run whose final assistant message was cut off at the token cap
\* ends with success = false and the truncation diagnostic as error, in
\* the streaming as in the non-streaming path.
C22_TruncationFailsRun ==
  EndedOnTruncation =>
    /\ ~result.success
    /\ result.error = <<ErrTruncated>>

\* tool calls of the run whose executor threw
ThrownCalls == {i \in 1..Len(calllog) : calllog[i][1] = "tool_threw"}

\* entries of a toolCalls list that record a call of the known tool with
\* the model's arguments and the error text as output
ErrorEntries(toolCalls) ==
  {i \in 1..Len(toolCalls) :
     /\ toolCalls[i].tool = KnownTool
     /\ toolCalls[i].input = "a0"
     /\ toolCalls[i].output = "Error: failure"}

\* C23: a run that was not ended by a failed generation call or by the
\* step limit returns a result whose toolCalls has an entry, with the tool
\* name, the input and the error as output, for every call whose executor
\* threw.
C23_ThrownCallsAreRecorded ==
  (pc = "done" /\ attempt = 0 /\ result.error # <<ErrRecursion>>) =>
    /\ ~escaped
    /\ Cardinality(ErrorEntries(result.toolCalls)) >= Cardinality(ThrownCalls)

\* where the tool stage did op for request id
Pos(op, id) == CHOOSE i \in 1..Len(calllog) : calllog[i] = <<op, id>>

InOrder(first, second, id) ==
  (Logged(first, id) /\ Logged(second, id)) => Pos(first, id) < Pos(second, id)

\* C24: for every request the before-hook runs before tool_start is
\* emitted, tool_start before the tool is invoked, the tool before
\* tool_complete is emitted, and tool_complete has been emitted by the time
\* the after-hook runs.
C24_ToolStepsInOrder ==
  ThisCallback =>
    \A id \in 1..issued :
      /\ InOrder("before", "tool_start", id)
      /\ InOrder("tool_start", "invoke", id)
      /\ InOrder("invoke", "tool_complete", id)
      /\ Logged("after", id) =>
           (Logged("tool_complete", id) /\ InOrder("tool_complete", "after", id))

HasResultFor(msgs, id) ==
  \E i \in 1..Len(msgs) : msgs[i].role = "tool" /\ msgs[i].tcid = id

\* C25: the requests of a turn are processed one after the other in the
\* order of the assistant message, and the messages handed to a hook of
\* the k-th request hold a tool-result message for each of the k - 1
\* requests before it.
C25_HooksSeeEarlierResults ==
  /\ \A i \in 1..(Len(calllog) - 1) : calllog[i][2] <= calllog[i + 1][2]
  /\ \A h \in 1..Len(hookLog) :
       \A k \in 1..Len(turn.calls) :
         turn.calls[k].id = hookLog[h].id =>
           \A j \in 1..(k - 1) :
             HasResultFor(hookLog[h].messages, turn.calls[j].id)

\* a sequence of messages without the ids the reducer gave them
Unlabelled(msgs) == [i \in 1..Len(msgs) |-> [msgs[i] EXCEPT !.id = 0]]

\* position of the request id among the requests of the turn
CallIndex(id) == CHOOSE k \in 1..Len(turn.calls) : turn.calls[k].id = id

\* the hook calls of the turn that returned another message sequence than
\* the one they were given
Replacements ==
  {h \in 1..Len(hookLog) :
     /\ \E k \in 1..Len(turn.calls) : turn.calls[k].id = hookLog[h].id
     /\ hookLog[h].result.defined
     /\ hookLog[h].result.messages # hookLog[h].messages}

\* the last replacement of the turn followed by the tool-result messages
\* produced after it
ReplacedConversation ==
  LET e == hookLog[MaxOf(Replacements)]
      k == CallIndex(e.id)
      from == IF e.hook = "before" THEN k ELSE k + 1
  IN e.result.messages \o SubSeq(turn.toolMessages, from, Len(turn.toolMessages))

\* C26: after a turn in which a hook returned a replacement, the
\* conversation is that replacement followed by the tool-result messages
\* produced after it, whatever the length of the replacement.
C26_ReplacementIsWholeConversation ==
  (TurnEnded /\ Replacements # {}) =>
    Unlabelled(messages) = Unlabelled(ReplacedConversation)

\* a before-hook of the run returned a sequence led by its own system
\* message
SystemRewritten ==
  \E h \in 1..Len(hookLog) :
    /\ hookLog[h].hook = "before"
    /\ hookLog[h].result.defined
    /\ hookLog[h].result.messages # <<>>
    /\ Head(hookLog[h].result.messages) = HookSystemMessage

\* C27: a before-hook is given the system message among its messages, and
\* once a before-hook has returned a sequence with another system message
\* the generation calls get that one and not the original system prompt.
C27_BeforeHookRewritesSystemMessage ==
  /\ \A h \in 1..Len(hookLog) :
       hookLog[h].hook = "before" =>
         \E i \in 1..Len(hookLog[h].messages) :
           hookLog[h].messages[i].content = systemMessage.content
  /\ (pc = "agent" /\ SystemRewritten) =>
       /\ Unlabelled(allMessages)[1] = HookSystemMessage
       /\ \A i \in 1..Len(allMessages) :
            allMessages[i].content # systemMessage.content

\* C28: the conversation only grows and no step changes a message that is
\* in it; in particular the arguments of a request recorded in an
\* assistant message stay what the model emitted.
C28_ConversationIsAppendOnly ==
  [][/\ Len(messages') >= Len(messages)
     /\ \A i \in 1..Len(messages) : messages'[i] = messages[i]]_vars

\* d of the claim, in milliseconds
ClaimedDelay(n) ==
  IF 1000 * 2 ^ (n - 1) < 32000 THEN 1000 * 2 ^ (n - 1) ELSE 32000

\* C29: a retry of the generation call follows a sleep; the sleep before
\* retry n lasts between 0.75 d and 1.25 d for d = min(1000 * 2^(n-1),
\* 32000) milliseconds, d is the delay before the jitter, it is at most
\* 32000 and not less than the one of retry n - 1.
C29_BackoffWithinQuarterOfDelay ==
  /\ (pc = "agent" /\ attempt >= 1) => backoff.attemptNumber = attempt
  /\ backoff.attemptNumber >= 1 =>
       LET n == backoff.attemptNumber
           d == ClaimedDelay(n)
       IN /\ backoff.delay = d
          /\ 4 * backoff.finalDelay >= 3 * d * Micro
          /\ 4 * backoff.finalDelay <= 5 * d * Micro
          /\ d <= 32000
          /\ n > 1 => ClaimedDelay(n - 1) <= d

\* the sleep before retry 7 is cut to the cap and shortened by the jitter
C29_Witness ==
  /\ backoff.attemptNumber = 7
  /\ backoff.delay = maxDelay
  /\ backoff.finalDelay < maxDelay * Micro

\* the events the step hands to the callback
NewEvents == SubSeq(events', Len(events) + 1, Len(events'))

IsErrorEvent(e) == e.type = "error"

\* C30: with a streaming callback attached, every failed attempt of the
\* generation call, the last one included, hands exactly one error event to
\* the callback, and that event is marked recoverable.
C30_FailedAttemptNotifiedRecoverable ==
  [][(ThisCallback /\ attempt' = attempt + 1) =>
       LET notified == SelectSeq(NewEvents, IsErrorEvent)
       IN Len(notified) = 1 /\ notified[1].recoverable]_vars

\* where the tool stage handed a tool_start to the constructor's callback
ToolStarts == {i \in 1..Len(calllog) : calllog[i][1] = "tool_start"}

\* the position of the next tool_start after position i, or the end of the
\* log when the run has ended without one
NextToolStart(i) ==
  LET later == {j \in ToolStarts : j > i}
  IN IF later = {} THEN Len(calllog) + 1
     ELSE CHOOSE j \in later : \A k \in later : j <= k

\* C31: every tool_start is followed, before the tool_start of the next
\* call, by exactly one tool_complete with the same call id, and every
\* tool_complete carries the id of an earlier tool_start, also when the
\* tool or a hook throws.
C31_ToolEventsPaired ==
  ThisCallback =>
    /\ \A i \in ToolStarts :
         (pc = "done" \/ NextToolStart(i) <= Len(calllog)) =>
           Cardinality({k \in (i + 1)..(NextToolStart(i) - 1) :
                          calllog[k] = <<"tool_complete", calllog[i][2]>>}) = 1
    /\ \A k \in 1..Len(calllog) :
         calllog[k][1] = "tool_complete" =>
           \E i \in 1..(k - 1) : calllog[i] = <<"tool_start", calllog[k][2]>>

\* C32: the iterations value a run returns never exceeds the run's
\* maxIterations.
C32_IterationsWithinBudget ==
  (pc = "done" /\ ~escaped) => result.iterations <= params.maxIterations

\* what executeAgent returns for the conversation, the model responses and
\* the tool outcomes of a finished streaming run: its catch for an error
\* thrown by the graph or the image fetch, else its walk over the messages
NonStreamingCounterpart ==
  IF nodeLog = <<>> /\ result.error # <<ErrImage>> THEN result
  ELSE IF result.error \in {<<ErrRecursion>>, <<ErrProvider>>, <<ErrImage>>}
       THEN InvokeCatch(result.error[1])
       ELSE InvokeResult(messages, params.jsonMode)

\* C33: for the same input, model responses and tool outcomes the
\* streaming entry point returns the result the non-streaming entry point
\* returns: the same response, toolCalls, iterations, success and error.
C33_StreamingMatchesNonStreaming ==
  (Streaming /\ pc = "done" /\ ~escaped) => result = NonStreamingCounterpart

\* C34: on success outside jsonMode the response is the text of the last
\* assistant message of the conversation, without the text of earlier
\* model turns, in the streaming as in the non-streaming path.
C34_ResponseIsLastAssistantText ==
  (pc = "done" /\ ~escaped /\ ~params.jsonMode /\ result.success) =>
    result.response = <<FinalText>>

HasNotFoundResult(msgs, id) ==
  Cardinality({i \in 1..Len(msgs) :
     msgs[i].role = "tool" /\ msgs[i].tcid = id
       /\ msgs[i].content = "Error: not found"}) = 1

\* C35: a request for a tool that is not in the resolved set runs no hook
\* and no tool, is answered by a `not found` tool-result message, does not
\* keep the rest of the turn from being processed, and its answer is in
\* the conversation the next MODEL_TURN receives.
C35_UnknownToolAnsweredNotFound ==
  TurnEnded =>
    \A i \in 1..Len(turn.calls) :
      turn.calls[i].name \notin agentTools =>
        LET id == turn.calls[i].id IN
        /\ \A op \in {"before", "invoke", "after", "tool_start"} : ~Logged(op, id)
        /\ HasNotFoundResult(turn.toolMessages, id)
        /\ \A j \in (i + 1)..Len(turn.calls) : Processed(turn.calls[j].id)
        /\ HasNotFoundResult(messages, id)

\* the run is inside a TOOL_TURN, after its first request and before its
\* last
InsideTurn == pc = "tools" /\ turn.idx < Len(turn.calls)

\* C36: every TOOL_TURN starts with the stop flag false: inside and at the
\* end of a turn the flag is set only if an after-hook of that turn asked
\* for a stop, and a stop requested by an earlier run on the same instance
\* does not end the run after a turn that requested none.
C36_StopFlagFreshEachTurn ==
  /\ (InsideTurn \/ TurnEnded) => (shouldStopAfterTools <=> OwnStopRequested)
  /\ (TurnEnded /\ pc = "done" /\ attempt = 0
        /\ Len(nodeLog) < params.maxIterations) => OwnStopRequested

\* an earlier run ended on a stop request, and this run went through a
\* turn without one and on to the next MODEL_TURN
C36_Witness ==
  /\ peer.pc = "done" /\ peer.requested
  /\ TurnEnded
  /\ ~OwnStopRequested
  /\ pc = "agent"

\* C37: a tool is handed a credential only if the tool declares its type
\* or it was supplied explicitly for the tool; no other credential of the
\* agent, such as the model provider's key, reaches the tool.
C37_OnlyDeclaredOrExplicitCredentials ==
  \A name \in DOMAIN toolCredentials :
    \A t \in DOMAIN toolCredentials[name] :
      \/ t \in BUBBLE_CREDENTIAL_OPTIONS(name)
      \/ /\ t \in DOMAIN params.toolConfigCredentials
         /\ toolCredentials[name][t] = params.toolConfigCredentials[t]

\* the agent holds the provider's key and a key the tool declares, nothing
\* was supplied for the tool, and the tool got the declared key only
C37_Witness ==
  /\ KnownTool \in DOMAIN toolCredentials
  /\ params.toolConfigCredentials = EmptyMap
  /\ params.credentials.map[OPENAI_CRED] = "x"
  /\ FIRECRAWL_API_KEY \in DOMAIN params.credentials.map
  /\ DOMAIN toolCredentials[KnownTool] = {FIRECRAWL_API_KEY}

\* the callbacks with a state value that went on to the token exchange
Accepted(state) ==
  {i \in 1..Len(LogOf(state)) : LogOf(state)[i].op = "handleOAuthCallback"}

InvalidState(r) ==
  /\ r.op = "handleOAuthCallback"
  /\ r.threw
  /\ r.message = "Invalid or expired state parameter"

\* C38: a state value is single-use.  At most one callback with a state
\* reaches the token exchange, and once one has, a callback with that state
\* is rejected with "Invalid or expired state parameter", while the exchange
\* of the first is awaited, after it has succeeded and after it has failed.
C38_StateSingleUse ==
  \A state \in DOMAIN oauthLog :
    /\ Cardinality(Accepted(state)) <= 1
    /\ Cardinality({i \in 1..Len(exchanging) :
                      exchanging[i].state = state}) <= 1
    /\ /\ Accepted(state) # {}
       /\ oauthResult.op = "handleOAuthCallback"
       /\ oauthResult.state = state
       /\ oauthResult.threw
       /\ oauthResult.message # "OAuth token exchange failed"
       => InvalidState(oauthResult)

\* a callback is rejected while the exchange of the first callback with the
\* same state is awaited
C38_Witness ==
  \E state \in DOMAIN oauthLog :
    /\ Accepted(state) # {}
    /\ \E i \in 1..Len(exchanging) : exchanging[i].state = state
    /\ InvalidState(oauthResult)
    /\ oauthResult.state = state

\* the credentials stored for a state value, as entries of its log
Stored(state) ==
  {i \in 1..Len(LogOf(state)) : LogOf(state)[i].op = "storeOAuthToken"}

\* C39: a callback goes on to the token exchange only with a state that
\* initiateOAuth returned for the same provider at most StateMinutes
\* earlier; every credential in the table was stored after such a callback
\* and carries the user, the credential type and the scopes recorded with
\* the state and the provider of the callback (so a callback with an
\* unknown, mismatched or expired state stores nothing); and the store
\* holds no state of an initiateOAuth call that failed.
C39_StoredOnlyForIssuedState ==
  /\ \A state \in DOMAIN oauthLog : \A i \in Accepted(state) :
       LET e == LogOf(state)[i]
           r == LogOf(state)[1]
       IN /\ r.op = "initiateOAuth"
          /\ e.stateData = r.data
          /\ e.stateData.provider = e.provider
          /\ e.time >= e.stateData.timestamp
          /\ e.time - e.stateData.timestamp <= StateMinutes
  /\ \A c \in 1..Len(userCredentials) :
       \E state \in DOMAIN oauthLog : \E j \in Stored(state) :
         /\ LogOf(state)[j].credentialId = c
         /\ \E i \in Accepted(state) :
              LET e == LogOf(state)[i]
                  row == userCredentials[c]
              IN /\ i < j
                 /\ row.userId = e.stateData.userId
                 /\ row.credentialType = e.stateData.credentialType
                 /\ row.oauthScopes = e.stateData.scopes
                 /\ row.oauthProvider = e.provider
  /\ \A state \in DOMAIN oauthLog :
       Cardinality(Stored(state)) <= Cardinality(Accepted(state))
  /\ DOMAIN stateStore \subseteq authorizing \cup ReturnedStates

\* a credential is stored for a state that came back exactly StateMinutes
\* after it was issued
C39_Witness ==
  \E state \in DOMAIN oauthLog : \E i \in Accepted(state) :
    /\ LogOf(state)[i].time - LogOf(state)[i].stateData.timestamp = StateMinutes
    /\ Stored(state) # {}
    /\ userCredentials # <<>>

\* C40: getValidToken does not return a stored access token that has
\* expired or expires within BufferMinutes: for such a credential it
\* returns the token of a refresh, or null.
C40_NoExpiringTokenReturned ==
  oauthResult.op = "getValidToken" /\ oauthResult.row # NoScopes =>
    LET row == oauthResult.row IN
      /\ row.oauthExpiresAt # NoDate
      /\ row.oauthExpiresAt < oauthResult.time + BufferMinutes
      => oauthResult.returned = Null \/ oauthResult.refreshed

====
